---- MODULE Spec2Model ----
(***************************************************************************)
(* A model of the Hummock write-conflict detector                          *)
(* (src/src/storage/src/hummock/conflict_detector.rs).                     *)
(*                                                                         *)
(* The detector holds three fields: epoch_history (epoch -> set of keys    *)
(* written in that epoch), epoch_watermark and epoch_set (the archived     *)
(* epochs).  A failed assert! is a panic: the call ends in a fatal signal  *)
(* and the detector keeps whatever the call had done up to that point.     *)
(*                                                                         *)
(* Spec          : calls run one after another, each call is one action.   *)
(* ConcSpec      : tasks run calls concurrently, one shared access per     *)
(*                 step.                                                   *)
(* WatermarkSpec : concurrent archive_epoch and set_watermark calls under  *)
(*                 a fair scheduler.                                       *)
(* FacadeSpec    : the state store facade over the storage engine          *)
(*                 (src/rust/storage/src/hummock/state_store.rs).          *)
(* DivSpec       : the checked integer division of two columns             *)
(*                 (src/rust/server/src/vector_op/div_op.rs).              *)
(***************************************************************************)
EXTENDS Integers, Sequences, FiniteSets, TLC

\* HummockEpoch is u64; its range is scaled down to 0..MaxEpoch, and
\* arithmetic on epochs keeps that width (modulo MaxEpoch + 1).
MaxEpoch == 2

\* The longest kv_pairs slice handed to the detector.
MaxBatchLen == 2

\* ConcSpec: the number of calls the tasks make in all.
MaxCalls == 2

\* HummockEpoch::MIN
EpochMIN == 0

Epochs == EpochMIN..MaxEpoch

Keys == {"key1", "key2"}

\* kv_pairs: a slice of (key, value); the detector reads the value only to
\* print it in the panic message, so a pair is modelled by its key.
Batches == UNION {[1..n -> Keys] : n \in 0..MaxBatchLen}

\* Option<HummockEpoch>
None == <<>>

Some(e) == <<e>>

FirstEpochs == {None} \cup {Some(e) : e \in Epochs}

\* ConcSpec: the tasks sharing the detector
Tasks == {"t1", "t2"}

VARIABLES
    epoch_history,    \* DashMap<HummockEpoch, HashSet<Bytes>>
    epoch_watermark,  \* AtomicCell<HummockEpoch>
    epoch_set,        \* DashSet<HummockEpoch>
    overflow_checks,  \* build profile: "on" if an overflowing `first_epoch - 1`
                      \* panics, "off" if it wraps; "unknown" until the first
                      \* overflow shows which build is running
    last,             \* the call that ran last, its state before, its outcome
    archived_done,    \* history: epochs whose archive_epoch call has returned
    gen_floor,        \* history: largest E with archive_epoch(E, Some(E)) returned
    frame,            \* ConcSpec: each task's running call, or a note of its last one
    calls,            \* ConcSpec: how many calls have been started
    marked            \* ConcSpec history: epochs some archive_epoch has inserted

\* The state store facade over the storage engine
\* (src/rust/storage/src/hummock/state_store.rs) and what it hands to and
\* gets from the engine.
VARIABLES
    store,            \* the engine's visible keys (the value of a key is fixed)
    phase,            \* "idle", "done" (a call returned), "open" (an iterator
                      \* is held), "failed" (a call on the iterator failed)
    call,             \* the facade call that ran last and its arguments
    engine_calls,     \* the engine calls that facade call made, with outcomes
    forwarded,        \* the argument of the engine's write_batch, if called
    cursor,           \* the DirectedUserIterator inside the held iterator
    returned,         \* what the held iterator's next() calls have returned
    ret               \* the result of the facade call that ran last

\* The checked division of two integer columns
\* (src/rust/server/src/vector_op/div_op.rs).
VARIABLES
    div_a,            \* the dividends, one Option per row
    div_b,            \* the divisors, one Option per row
    div_result        \* None, or Some(what vector_div_primitive_integer returned)

facade_vars == <<store, phase, call, engine_calls, forwarded, cursor, returned,
                 ret>>

div_vars == <<div_a, div_b, div_result>>

vars == <<epoch_history, epoch_watermark, epoch_set, overflow_checks, last,
          archived_done, gen_floor, frame, calls, marked, facade_vars,
          div_vars>>

seq_vars == <<last, archived_done, gen_floor>>

conc_vars == <<frame, calls, marked>>

\* The detector's fields as one value.
Detector == [epoch_history |-> epoch_history,
             epoch_watermark |-> epoch_watermark,
             epoch_set |-> epoch_set]

\* ConflictDetector::default()
DefaultDetector == [epoch_history |-> <<>>,
                    epoch_watermark |-> EpochMIN,
                    epoch_set |-> {}]

Fatal(result) == result # "ok"

Outcome(d, result) == [d |-> d, result |-> result]

-----------------------------------------------------------------------------
(* Primitives *)

\* get_epoch_watermark
get_epoch_watermark(d) == d.epoch_watermark

\* Mutant: the watermark is set to first_epoch, not to first_epoch - 1.
WrappingSub1_NoSub(e) == e

\* `first_epoch - 1` on u64 where the subtraction wraps.
WrappingSub1(e) == (e + MaxEpoch) % (MaxEpoch + 1)

\* `first_epoch - 1` overflows
Sub1Overflows(e) == e = EpochMIN

\* The builds the run so far can be: overflow checks are a property of the
\* build, so the first overflow settles them for the rest of the run.
Builds == IF overflow_checks = "unknown" THEN {"on", "off"}
          ELSE {overflow_checks}

\* Mutant: a write at the watermark itself passes.
WriteEpochAllowed_AtWatermark(epoch, watermark) == epoch >= watermark

\* assert!(epoch > self.get_epoch_watermark()) of the write path
WriteEpochAllowed(epoch, watermark) == epoch > watermark

\* Mutant: an archival at the watermark itself passes.
ArchiveEpochAllowed_AtWatermark(epoch, watermark) == epoch >= watermark

\* assert!(epoch > self.get_epoch_watermark()) of archive_epoch
ArchiveEpochAllowed(epoch, watermark) == epoch > watermark

\* Mutant: the assertion lets the watermark itself pass.
WatermarkAdvances_AtWatermark(epoch, current_watermark) ==
    epoch >= current_watermark

\* Mutant: set_watermark without its assertion.
WatermarkAdvances_Unchecked(epoch, current_watermark) == TRUE

\* assert!(epoch > current_watermark) of set_watermark
WatermarkAdvances(epoch, current_watermark) == epoch > current_watermark

\* Mutant: the result of the insert is ignored.
HashSetInsert_Unchecked(s, key) == [set |-> s \cup {key}, fresh |-> TRUE]

\* HashSet::insert: the set afterwards, and whether the key was new
HashSetInsert(s, key) == [set |-> s \cup {key}, fresh |-> key \notin s]

\* Mutant: insert(epoch, HashSet::new()) in place of entry().or_insert().
EntryOrInsert_Overwrite(h, epoch) ==
    [e \in DOMAIN h \cup {epoch} |-> IF e = epoch THEN {} ELSE h[e]]

\* epoch_history.entry(epoch).or_insert(HashSet::new())
EntryOrInsert(h, epoch) ==
    [e \in DOMAIN h \cup {epoch} |-> IF e \in DOMAIN h THEN h[e] ELSE {}]

\* Mutant: the tracked key set is not discarded.
HistoryRemove_Forgotten(h, epoch) == h

\* epoch_history.remove(&epoch)
HistoryRemove(h, epoch) == [e \in DOMAIN h \ {epoch} |-> h[e]]

\* Mutant: retain(|x| x > &first_epoch)
Retain_OffByOne(set, bound) == {x \in set : x > bound + 1}

\* epoch_set.retain(|x| x > &(first_epoch - 1))
Retain(set, bound) == {x \in set : x > bound}

\* The loop over kv_pairs from position i on: every key is inserted into
\* written_key, and the first insert that finds its key present panics.
RECURSIVE TrackKeys(_, _, _)
TrackKeys(written_key, kv_pairs, i) ==
    IF i > Len(kv_pairs)
    THEN [set |-> written_key, ok |-> TRUE]
    ELSE LET r == HashSetInsert(written_key, kv_pairs[i])
         IN  IF r.fresh
             THEN TrackKeys(r.set, kv_pairs, i + 1)
             ELSE [set |-> r.set, ok |-> FALSE]

\* Mutant: a batch with a duplicate key leaves the history as it was.
TrackBatch_AllOrNothing(h, kv_pairs, epoch) ==
    LET h1 == EntryOrInsert(h, epoch)
        t  == TrackKeys(h1[epoch], kv_pairs, 1)
    IN  IF t.ok THEN [history |-> [h1 EXCEPT ![epoch] = t.set], ok |-> TRUE]
        ELSE [history |-> h, ok |-> FALSE]

\* Lines 96-105: the entry of `epoch` is taken (created empty if absent) and
\* held while the keys are inserted.
TrackBatch(h, kv_pairs, epoch) ==
    LET h1 == EntryOrInsert(h, epoch)
        t  == TrackKeys(h1[epoch], kv_pairs, 1)
    IN  [history |-> [h1 EXCEPT ![epoch] = t.set], ok |-> t.ok]

-----------------------------------------------------------------------------
(* The operations, each as a function of the detector *)

set_watermark(d, epoch) ==
    IF ~WatermarkAdvances(epoch, get_epoch_watermark(d))
    THEN Outcome(d, "watermark_regression")
    ELSE Outcome([d EXCEPT !.epoch_watermark = epoch], "ok")

\* Mutant: the entry of the epoch is taken before the two assertions.
check_conflict_and_track_write_batch_EntryFirst(d, kv_pairs, epoch) ==
    LET d1 == [d EXCEPT !.epoch_history = EntryOrInsert(@, epoch)]
    IN  IF ~WriteEpochAllowed(epoch, get_epoch_watermark(d))
        THEN Outcome(d1, "below_watermark")
        ELSE IF epoch \in d.epoch_set
        THEN Outcome(d1, "archived_epoch")
        ELSE LET t == TrackBatch(d.epoch_history, kv_pairs, epoch)
             IN  Outcome([d EXCEPT !.epoch_history = t.history],
                         IF t.ok THEN "ok" ELSE "duplicate_key")

check_conflict_and_track_write_batch(d, kv_pairs, epoch) ==
    IF ~WriteEpochAllowed(epoch, get_epoch_watermark(d))
    THEN Outcome(d, "below_watermark")
    ELSE IF epoch \in d.epoch_set
    THEN Outcome(d, "archived_epoch")
    ELSE LET t == TrackBatch(d.epoch_history, kv_pairs, epoch)
         IN  Outcome([d EXCEPT !.epoch_history = t.history],
                     IF t.ok THEN "ok" ELSE "duplicate_key")

\* Lines 122-127, after the epoch has been marked archived.
AdvanceToFirst(d, first_epoch, build) ==
    IF first_epoch = None
    THEN Outcome(d, "ok")
    ELSE IF Sub1Overflows(first_epoch[1]) /\ build = "on"
    THEN Outcome(d, "arithmetic_overflow")
    ELSE LET target == WrappingSub1(first_epoch[1])
         IN  IF target = get_epoch_watermark(d)
             THEN Outcome(d, "ok")
             ELSE LET s == set_watermark(d, target)
                  IN  IF Fatal(s.result)
                      THEN s
                      ELSE Outcome([s.d EXCEPT !.epoch_set = Retain(@, target)],
                                   "ok")

\* Mutant: the watermark is advanced before the epoch is marked archived.
archive_epoch_AdvanceFirst(d, epoch, first_epoch, build) ==
    IF ~ArchiveEpochAllowed(epoch, get_epoch_watermark(d))
    THEN Outcome(d, "below_watermark")
    ELSE IF epoch \in d.epoch_set
    THEN Outcome(d, "already_archived")
    ELSE LET s == AdvanceToFirst(d, first_epoch, build)
         IN  IF Fatal(s.result)
             THEN s
             ELSE Outcome([s.d EXCEPT
                               !.epoch_set = Retain(@ \cup {epoch},
                                                    s.d.epoch_watermark),
                               !.epoch_history = HistoryRemove(@, epoch)],
                          "ok")

archive_epoch(d, epoch, first_epoch, build) ==
    IF ~ArchiveEpochAllowed(epoch, get_epoch_watermark(d))
    THEN Outcome(d, "below_watermark")
    ELSE IF epoch \in d.epoch_set
    THEN Outcome(d, "already_archived")
    ELSE AdvanceToFirst([d EXCEPT !.epoch_set = @ \cup {epoch},
                                  !.epoch_history = HistoryRemove(@, epoch)],
                        first_epoch, build)

\* archive_epoch(epoch, first_epoch) comes to subtract from the minimum epoch.
ArchiveOverflows(d, epoch, first_epoch) ==
    /\ ArchiveEpochAllowed(epoch, get_epoch_watermark(d))
    /\ epoch \notin d.epoch_set
    /\ first_epoch # None
    /\ Sub1Overflows(first_epoch[1])

-----------------------------------------------------------------------------
(* Spec: the calls of one caller, one after another *)

Call(op, epoch, kv_pairs, first_epoch, result) ==
    [op |-> op, epoch |-> epoch, kv_pairs |-> kv_pairs,
     first_epoch |-> first_epoch, result |-> result,
     pre |-> Detector, pre_done |-> archived_done, pre_floor |-> gen_floor]

Max(a, b) == IF a >= b THEN a ELSE b

Install(d) ==
    /\ epoch_history' = d.epoch_history
    /\ epoch_watermark' = d.epoch_watermark
    /\ epoch_set' = d.epoch_set

\* A task that has made no call yet.
IdleFrame == [op |-> "none", epoch |-> EpochMIN, kv_pairs |-> <<>>,
              first_epoch |-> None, pc |-> "idle", target |-> EpochMIN,
              current_watermark |-> EpochMIN, entry_watermark |-> EpochMIN,
              result |-> "ok", with |-> {}]

\* The facade before a call: nothing asked of the engine, no iterator held.
FacadeIdle ==
    /\ phase = "idle"
    /\ call = [op |-> "none"]
    /\ engine_calls = <<>>
    /\ forwarded = None
    /\ cursor = None
    /\ returned = <<>>
    /\ ret = None

DetectorInit ==
    /\ epoch_history = DefaultDetector.epoch_history
    /\ epoch_watermark = DefaultDetector.epoch_watermark
    /\ epoch_set = DefaultDetector.epoch_set
    /\ overflow_checks = "unknown"
    /\ last = [op |-> "new", epoch |-> EpochMIN, kv_pairs |-> <<>>,
               first_epoch |-> None, result |-> "ok",
               pre |-> DefaultDetector, pre_done |-> {}, pre_floor |-> EpochMIN]
    /\ archived_done = {}
    /\ gen_floor = EpochMIN
    /\ frame = [t \in Tasks |-> IdleFrame]
    /\ calls = 0
    /\ marked = {}

\* No division has been asked for.
DivIdle ==
    /\ div_a = <<>>
    /\ div_b = <<>>
    /\ div_result = None

Init ==
    /\ DetectorInit
    /\ FacadeIdle
    /\ store = {}
    /\ DivIdle

WriteBatch(kv_pairs, epoch) ==
    LET r == check_conflict_and_track_write_batch(Detector, kv_pairs, epoch)
    IN  /\ Install(r.d)
        /\ last' = Call("write", epoch, kv_pairs, None, r.result)
        /\ UNCHANGED <<overflow_checks, archived_done, gen_floor, conc_vars,
                       facade_vars, div_vars>>

ArchiveEpoch(epoch, first_epoch) ==
    \E build \in Builds :
        LET r == archive_epoch(Detector, epoch, first_epoch, build)
        IN  /\ Install(r.d)
            /\ last' = Call("archive", epoch, <<>>, first_epoch, r.result)
            /\ archived_done' = IF Fatal(r.result) THEN archived_done
                                ELSE archived_done \cup {epoch}
            /\ gen_floor' = IF ~Fatal(r.result) /\ first_epoch = Some(epoch)
                            THEN Max(gen_floor, epoch)
                            ELSE gen_floor
            /\ overflow_checks' =
                   IF ArchiveOverflows(Detector, epoch, first_epoch)
                   THEN build ELSE overflow_checks
            /\ UNCHANGED <<conc_vars, facade_vars, div_vars>>

SetWatermark(epoch) ==
    LET r == set_watermark(Detector, epoch)
    IN  /\ Install(r.d)
        /\ last' = Call("set_watermark", epoch, <<>>, None, r.result)
        /\ UNCHANGED <<overflow_checks, archived_done, gen_floor, conc_vars,
                       facade_vars, div_vars>>

Next ==
    \/ \E kv_pairs \in Batches, epoch \in Epochs : WriteBatch(kv_pairs, epoch)
    \/ \E epoch \in Epochs, first_epoch \in FirstEpochs :
           ArchiveEpoch(epoch, first_epoch)
    \/ \E epoch \in Epochs : SetWatermark(epoch)

Spec == Init /\ [][Next]_vars

-----------------------------------------------------------------------------
(* ConcSpec: tasks call the detector concurrently.  A step is one access to  *)
(* a shared field together with the local code up to the next access.       *)

InFlight == {t \in Tasks : frame[t].pc \notin {"idle", "done"}}

CanCall(t) == frame[t].pc \in {"idle", "done"} /\ calls < MaxCalls

\* Task t comes to `pc` in its running call.
Goto(t, pc) == frame' = [frame EXCEPT ![t].pc = pc]

\* Task t's call ends: it returned ("ok") or panicked.  Its locals are gone;
\* what is kept of the call is a note: the operation, its epoch, its result,
\* the watermark it asked for, the watermark at its entry when it came with a
\* first epoch, the batch of a write that came to track its keys, and the
\* tasks that were inside a call at some moment of this one.
Finish(t, result) ==
    frame' = [frame EXCEPT ![t].pc = "done", ![t].result = result,
                           ![t].current_watermark = EpochMIN,
                           ![t].first_epoch = None,
                           ![t].kv_pairs = IF result \in {"ok", "duplicate_key"}
                                           THEN @ ELSE <<>>]

\* Task t enters a call and has run it up to `pc`; the tasks inside a call
\* at that moment are noted on both sides.
Enter(t, op, epoch, kv_pairs, first_epoch, pc, result) ==
    /\ frame' = [u \in Tasks |->
                    IF u = t
                    THEN [op |-> op, epoch |-> epoch, kv_pairs |-> kv_pairs,
                          first_epoch |-> first_epoch, pc |-> pc,
                          target |-> IF op = "set_watermark" THEN epoch
                                     ELSE EpochMIN,
                          current_watermark |-> IF pc = "sw_cas"
                                                THEN epoch_watermark
                                                ELSE EpochMIN,
                          entry_watermark |-> IF first_epoch # None
                                              THEN epoch_watermark
                                              ELSE EpochMIN,
                          result |-> result, with |-> InFlight \ {t}]
                    ELSE IF u \in InFlight
                    THEN [frame[u] EXCEPT !.with = @ \cup {t}]
                    ELSE frame[u]]
    /\ calls' = calls + 1

\* check_conflict_and_track_write_batch is called; lines 85-89
CallWrite(t, kv_pairs, epoch) ==
    /\ CanCall(t)
    /\ IF WriteEpochAllowed(epoch, epoch_watermark)
       THEN Enter(t, "write", epoch, kv_pairs, None, "w_contains", "ok")
       ELSE Enter(t, "write", epoch, <<>>, None, "done", "below_watermark")
    /\ UNCHANGED <<epoch_history, epoch_watermark, epoch_set, overflow_checks,
                   seq_vars, facade_vars, marked, div_vars>>

\* lines 90-94
WriteContains(t) ==
    /\ frame[t].pc = "w_contains"
    /\ IF frame[t].epoch \in epoch_set
       THEN Finish(t, "archived_epoch")
       ELSE Goto(t, "w_track")
    /\ UNCHANGED <<epoch_history, epoch_watermark, epoch_set, overflow_checks,
                   seq_vars, facade_vars, calls, marked, div_vars>>

\* lines 96-105: the entry's guard is held from `entry` to the end of the
\* loop (or to the panic), so no other access to this epoch's entry can fall
\* in between.
WriteTrack(t) ==
    /\ frame[t].pc = "w_track"
    /\ LET r == TrackBatch(epoch_history, frame[t].kv_pairs, frame[t].epoch)
       IN  /\ epoch_history' = r.history
           /\ Finish(t, IF r.ok THEN "ok" ELSE "duplicate_key")
    /\ UNCHANGED <<epoch_watermark, epoch_set, overflow_checks, seq_vars,
                   facade_vars, calls, marked, div_vars>>

\* archive_epoch is called; lines 110-115
CallArchive(t, epoch, first_epoch) ==
    /\ CanCall(t)
    /\ IF ArchiveEpochAllowed(epoch, epoch_watermark)
       THEN Enter(t, "archive", epoch, <<>>, first_epoch, "a_insert", "ok")
       ELSE Enter(t, "archive", epoch, <<>>, None, "done",
                  "below_watermark")
    /\ UNCHANGED <<epoch_history, epoch_watermark, epoch_set, overflow_checks,
                   seq_vars, facade_vars, marked, div_vars>>

\* lines 116-120
ArchiveInsert(t) ==
    /\ frame[t].pc = "a_insert"
    /\ IF frame[t].epoch \in epoch_set
       THEN /\ Finish(t, "already_archived")
            /\ UNCHANGED <<epoch_set, marked>>
       ELSE /\ epoch_set' = epoch_set \cup {frame[t].epoch}
            /\ marked' = marked \cup {frame[t].epoch}
            /\ Goto(t, "a_remove")
    /\ UNCHANGED <<epoch_history, epoch_watermark, overflow_checks, seq_vars,
                   facade_vars, calls, div_vars>>

\* line 121, then line 122 and the subtraction of line 123
ArchiveRemove(t) ==
    /\ frame[t].pc = "a_remove"
    /\ epoch_history' = HistoryRemove(epoch_history, frame[t].epoch)
    /\ IF frame[t].first_epoch = None
       THEN Finish(t, "ok") /\ UNCHANGED overflow_checks
       ELSE \E build \in Builds :
                /\ overflow_checks' =
                       IF Sub1Overflows(frame[t].first_epoch[1])
                       THEN build ELSE overflow_checks
                /\ IF Sub1Overflows(frame[t].first_epoch[1]) /\ build = "on"
                   THEN Finish(t, "arithmetic_overflow")
                   ELSE frame' = [frame EXCEPT ![t].pc = "a_compare",
                            ![t].target = WrappingSub1(frame[t].first_epoch[1])]
    /\ UNCHANGED <<epoch_watermark, epoch_set, seq_vars, facade_vars, calls,
                   marked, div_vars>>

\* line 123: the watermark is read and compared
ArchiveCompare(t) ==
    /\ frame[t].pc = "a_compare"
    /\ IF frame[t].target = epoch_watermark
       THEN Finish(t, "ok")
       ELSE Goto(t, "sw_load")
    /\ UNCHANGED <<epoch_history, epoch_watermark, epoch_set, overflow_checks,
                   seq_vars, facade_vars, calls, marked, div_vars>>

\* set_watermark is called by a task; lines 60-66
CallSetWatermark(t, epoch) ==
    /\ CanCall(t)
    /\ IF WatermarkAdvances(epoch, epoch_watermark)
       THEN Enter(t, "set_watermark", epoch, <<>>, None, "sw_cas", "ok")
       ELSE Enter(t, "set_watermark", epoch, <<>>, None, "done",
                  "watermark_regression")
    /\ UNCHANGED <<epoch_history, epoch_watermark, epoch_set, overflow_checks,
                   seq_vars, facade_vars, marked, div_vars>>

\* lines 60-66 inside archive_epoch, and again after a failed exchange
SetWatermarkLoad(t) ==
    /\ frame[t].pc = "sw_load"
    /\ IF WatermarkAdvances(frame[t].target, epoch_watermark)
       THEN frame' = [frame EXCEPT ![t].pc = "sw_cas",
                                   ![t].current_watermark = epoch_watermark]
       ELSE Finish(t, "watermark_regression")
    /\ UNCHANGED <<epoch_history, epoch_watermark, epoch_set, overflow_checks,
                   seq_vars, facade_vars, calls, marked, div_vars>>

\* Mutant: a store that does not compare the value read.
SetWatermarkCas_BlindStore(t) ==
    /\ frame[t].pc = "sw_cas"
    /\ epoch_watermark' = frame[t].target
    /\ IF frame[t].op = "archive"
       THEN frame' = [frame EXCEPT ![t].pc = "a_retain",
                                   ![t].current_watermark = EpochMIN]
       ELSE Finish(t, "ok")
    /\ UNCHANGED <<epoch_history, epoch_set, overflow_checks, seq_vars,
                   facade_vars, calls, marked, div_vars>>

\* Mutant: after a failed exchange the watermark is not read again.
SetWatermarkCas_NoReload(t) ==
    /\ frame[t].pc = "sw_cas"
    /\ IF epoch_watermark = frame[t].current_watermark
       THEN /\ epoch_watermark' = frame[t].target
            /\ IF frame[t].op = "archive"
               THEN frame' = [frame EXCEPT ![t].pc = "a_retain",
                                           ![t].current_watermark = EpochMIN]
               ELSE Finish(t, "ok")
       ELSE UNCHANGED <<epoch_watermark, frame>>
    /\ UNCHANGED <<epoch_history, epoch_set, overflow_checks, seq_vars,
                   facade_vars, calls, marked, div_vars>>

\* lines 67-73: compare_exchange(current_watermark, epoch)
SetWatermarkCas(t) ==
    /\ frame[t].pc = "sw_cas"
    /\ IF epoch_watermark = frame[t].current_watermark
       THEN /\ epoch_watermark' = frame[t].target
            /\ IF frame[t].op = "archive"
               THEN frame' = [frame EXCEPT ![t].pc = "a_retain",
                                           ![t].current_watermark = EpochMIN]
               ELSE Finish(t, "ok")
       ELSE /\ UNCHANGED epoch_watermark
            /\ frame' = [frame EXCEPT ![t].pc = "sw_load",
                                      ![t].current_watermark = EpochMIN]
    /\ UNCHANGED <<epoch_history, epoch_set, overflow_checks, seq_vars,
                   facade_vars, calls, marked, div_vars>>

\* line 125
ArchiveRetain(t) ==
    /\ frame[t].pc = "a_retain"
    /\ epoch_set' = Retain(epoch_set, frame[t].target)
    /\ Finish(t, "ok")
    /\ UNCHANGED <<epoch_history, epoch_watermark, overflow_checks, seq_vars,
                   facade_vars, calls, marked, div_vars>>

ConcNext ==
    \/ \E t \in Tasks, kv_pairs \in Batches, epoch \in Epochs :
           CallWrite(t, kv_pairs, epoch)
    \/ \E t \in Tasks : WriteContains(t)
    \/ \E t \in Tasks : WriteTrack(t)
    \/ \E t \in Tasks, epoch \in Epochs, first_epoch \in FirstEpochs :
           CallArchive(t, epoch, first_epoch)
    \/ \E t \in Tasks : ArchiveInsert(t)
    \/ \E t \in Tasks : ArchiveRemove(t)
    \/ \E t \in Tasks : ArchiveCompare(t)
    \/ \E t \in Tasks, epoch \in Epochs : CallSetWatermark(t, epoch)
    \/ \E t \in Tasks : SetWatermarkLoad(t)
    \/ \E t \in Tasks : SetWatermarkCas(t)
    \/ \E t \in Tasks : ArchiveRetain(t)

ConcSpec == Init /\ [][ConcNext]_vars

-----------------------------------------------------------------------------
(* WatermarkSpec: tasks call archive_epoch and set_watermark concurrently,   *)
(* a bounded number of calls in all, under a scheduler that lets every task  *)
(* that is inside a call take its next step.                                 *)

WatermarkNext ==
    \/ \E t \in Tasks, epoch \in Epochs, first_epoch \in FirstEpochs :
           CallArchive(t, epoch, first_epoch)
    \/ \E t \in Tasks : ArchiveInsert(t)
    \/ \E t \in Tasks : ArchiveRemove(t)
    \/ \E t \in Tasks : ArchiveCompare(t)
    \/ \E t \in Tasks, epoch \in Epochs : CallSetWatermark(t, epoch)
    \/ \E t \in Tasks : SetWatermarkLoad(t)
    \/ \E t \in Tasks : SetWatermarkCas(t)
    \/ \E t \in Tasks : ArchiveRetain(t)

\* The next step of task t inside its running call.
TaskStep(t) ==
    \/ ArchiveInsert(t)
    \/ ArchiveRemove(t)
    \/ ArchiveCompare(t)
    \/ SetWatermarkLoad(t)
    \/ SetWatermarkCas(t)
    \/ ArchiveRetain(t)

WatermarkSpec ==
    /\ Init
    /\ [][WatermarkNext]_vars
    /\ \A t \in Tasks : WF_vars(TaskStep(t))

-----------------------------------------------------------------------------
(* The state store facade (src/rust/storage/src/hummock/state_store.rs).     *)
(* The storage engine, its cursor and the key boundary functions are not in  *)
(* that file; they are modelled as far as the facade uses them.              *)

\* u8::MAX, the range of a byte scaled down to 0..ByteMAX.
ByteMAX == 2

\* The longest prefix handed to iter and reverse_iter; keys are up to one
\* byte longer.
MaxPrefixLen == 2

\* How many more next() calls are made on an iterator that has returned None.
MaxNextAfterEnd == 2

Bytes == 0..ByteMAX

Prefixes == UNION {[1..n -> Bytes] : n \in 0..MaxPrefixLen}

ByteKeys == UNION {[1..n -> Bytes] : n \in 0..(MaxPrefixLen + 1)}

\* The keys the engine may hold: a key, keys that extend it, a key made of
\* the largest byte, and a key next to those.
StoreKeys == {<<0>>, <<0, 0>>, <<0, ByteMAX>>, <<1>>, <<ByteMAX>>}

\* The payload the engine holds for a key.
ValueOf(k) == <<Len(k)>> \o k

\* Option<Bytes> values of a batch: absent, present and empty, present.
OptValues == {None, Some(<<>>), Some(<<ByteMAX>>)}

\* The keys of a batch.
BatchKeys == {<<>>, <<0>>, <<0, ByteMAX>>, <<ByteMAX>>}

KvPairs == UNION {[1..n -> BatchKeys \X OptValues] : n \in 0..MaxBatchLen}

\* Ord of byte strings (k1.cmp(k2) = Less): lexicographic, a proper prefix
\* comes first.
LexLess(a, b) ==
    \/ /\ Len(a) < Len(b)
       /\ \A j \in 1..Len(a) : a[j] = b[j]
    \/ \E i \in 1..Len(a) :
           /\ i <= Len(b)
           /\ a[i] < b[i]
           /\ \A j \in 1..(i - 1) : a[j] = b[j]

LexLeq(a, b) == a = b \/ LexLess(a, b)

\* Mutant: a pair whose key is already there takes the place of the old pair.
RECURSIVE InsertByKey_Overwrite(_, _)
InsertByKey_Overwrite(sorted, pair) ==
    IF sorted = <<>> THEN <<pair>>
    ELSE IF pair[1] = Head(sorted)[1] THEN <<pair>> \o Tail(sorted)
    ELSE IF LexLess(pair[1], Head(sorted)[1]) THEN <<pair>> \o sorted
    ELSE <<Head(sorted)>> \o InsertByKey_Overwrite(Tail(sorted), pair)

\* One pair put in its place among pairs already in order: before the first
\* pair whose key is greater, so after the pairs of the same key (sort_by is
\* a stable sort).
RECURSIVE InsertByKey(_, _)
InsertByKey(sorted, pair) ==
    IF sorted = <<>> THEN <<pair>>
    ELSE IF LexLess(pair[1], Head(sorted)[1]) THEN <<pair>> \o sorted
    ELSE <<Head(sorted)>> \o InsertByKey(Tail(sorted), pair)

\* kv_pairs.sort_by(|(k1, _), (k2, _)| k1.cmp(k2))
RECURSIVE sort_by(_)
sort_by(kv_pairs) ==
    IF kv_pairs = <<>> THEN <<>>
    ELSE InsertByKey(sort_by(SubSeq(kv_pairs, 1, Len(kv_pairs) - 1)),
                     kv_pairs[Len(kv_pairs)])

\* Option<Vec<u8>> into HummockValue: a present value is a Put of its bytes,
\* an absent one a Delete.
IntoHummockValue(v) ==
    IF v = None THEN [kind |-> "Delete", bytes |-> <<>>]
    ELSE [kind |-> "Put", bytes |-> v[1]]

\* The iterator the write_batch call is given: each pair of the sorted batch
\* with its key copied and its value converted.
WriteBatchPairs(kv_pairs) ==
    LET sorted == sort_by(kv_pairs)
    IN  [i \in 1..Len(sorted) |->
            <<sorted[i][1], IntoHummockValue(sorted[i][2])>>]

\* The end of a range: a key, or no bound.
Bound(key) == [unbounded |-> FALSE, key |-> key]

Unbounded == [unbounded |-> TRUE, key |-> <<>>]

\* The positions of a byte string that hold a byte other than b.
PositionsNot(key, b) == {i \in 1..Len(key) : key[i] # b}

SetMax(S) == CHOOSE x \in S : \A y \in S : y <= x

\* next_key: the last byte that is not the largest byte is raised by one and
\* the bytes after it are cut; a prefix of largest bytes only has no bound.
next_key(prefix) ==
    IF PositionsNot(prefix, ByteMAX) = {} THEN Unbounded
    ELSE LET pos == SetMax(PositionsNot(prefix, ByteMAX))
         IN  Bound(SubSeq(prefix, 1, pos - 1) \o <<prefix[pos] + 1>>)

\* prev_key: the last byte that is not zero is lowered by one and the bytes
\* after it are cut; a prefix of zero bytes only has no bound.
prev_key(prefix) ==
    IF PositionsNot(prefix, 0) = {} THEN Unbounded
    ELSE LET pos == SetMax(PositionsNot(prefix, 0))
         IN  Bound(SubSeq(prefix, 1, pos - 1) \o <<prefix[pos] - 1>>)

\* Mutant: the scan is given no upper end.
IterRange_NoEnd(prefix) == [start |-> Bound(prefix), end |-> Unbounded]

\* prefix.to_owned()..next_key(prefix)
IterRange(prefix) == [start |-> Bound(prefix), end |-> next_key(prefix)]

\* prefix.to_owned()..prev_key(prefix)
ReverseIterRange(prefix) == [start |-> Bound(prefix), end |-> prev_key(prefix)]

\* A key is in the forward range [start, end).
InForwardRange(k, range) ==
    /\ LexLeq(range.start.key, k)
    /\ range.end.unbounded \/ LexLess(k, range.end.key)

\* A key is in the backward range: down from start to end, end excluded.
InBackwardRange(k, range) ==
    /\ LexLeq(k, range.start.key)
    /\ range.end.unbounded \/ LexLess(range.end.key, k)

\* The keys of a set in ascending order.
RECURSIVE Ascending(_)
Ascending(S) ==
    IF S = {} THEN <<>>
    ELSE LET least == CHOOSE k \in S : \A other \in S : LexLeq(k, other)
         IN  <<least>> \o Ascending(S \ {least})

Reverse(seq) == [i \in 1..Len(seq) |-> seq[Len(seq) + 1 - i]]

\* The (key, value) pairs a cursor goes through once rewound.
CursorItems(direction, range) ==
    LET keys == IF direction = "Forward"
                THEN Ascending({k \in store : InForwardRange(k, range)})
                ELSE Reverse(Ascending({k \in store :
                                            InBackwardRange(k, range)}))
    IN  [i \in 1..Len(keys) |-> <<keys[i], ValueOf(keys[i])>>]

\* range_scan / reverse_range_scan: a cursor bound to a range, not rewound.
RangeScan(direction, range) ==
    [direction |-> direction, range |-> range, items |-> <<>>, pos |-> 0,
     rewinds |-> 0, steps |-> 0]

\* rewind(): the cursor is put on the first pair of its range.
Rewind(c) ==
    [c EXCEPT !.items = CursorItems(c.direction, c.range), !.pos = 1,
              !.rewinds = @ + 1]

\* is_valid()
IsValid(c) == c.rewinds > 0 /\ c.pos \in 1..Len(c.items)

\* (key(), value()) of a valid cursor
Current(c) == c.items[c.pos]

\* The cursor's own next(): one step in its direction.
Advance(c) == [c EXCEPT !.pos = @ + 1, !.steps = @ + 1]

\* A failed step: it was made, and the cursor is not used after it.
AdvanceFailed(c) == [c EXCEPT !.steps = @ + 1]

EngineCall(fn, ok) == [fn |-> fn, ok |-> ok]

\* Result<T>
Ok(value) == [ok |-> TRUE, value |-> value]

Err == [ok |-> FALSE, value |-> "StorageError"]

detector_vars == <<epoch_history, epoch_watermark, epoch_set, overflow_checks,
                   seq_vars, conc_vars>>

\* The iterator in hand.
Held == cursor[1]

\* How many times the iterator in hand has returned None.
NoneReturned == Cardinality({i \in DOMAIN returned : returned[i] = None})

\* Mutant: the error of the engine call is dropped and the value returned.
Try_Dropped(ok, value) == Ok(value)

\* `engine_call.await?` followed by Ok(value): the error of the engine call
\* is the result, or else the value.
Try(ok, value) == IF ok THEN Ok(value) ELSE Err

\* get, lines 30-34
Get(key, get_ok) ==
    /\ phase = "idle"
    /\ call' = [op |-> "get", key |-> key]
    /\ engine_calls' = <<EngineCall("get", get_ok)>>
    /\ ret' = Try(get_ok, IF key \in store THEN Some(ValueOf(key)) ELSE None)
    /\ phase' = "done"
    /\ UNCHANGED <<store, forwarded, cursor, returned, detector_vars,
                   div_vars>>

\* ingest_batch, lines 36-53
IngestBatch(kv_pairs, epoch, write_ok) ==
    /\ phase = "idle"
    /\ call' = [op |-> "ingest_batch", kv_pairs |-> kv_pairs, epoch |-> epoch]
    /\ forwarded' = Some([pairs |-> WriteBatchPairs(kv_pairs),
                          epoch |-> epoch])
    /\ engine_calls' = <<EngineCall("write_batch", write_ok)>>
    /\ ret' = Try(write_ok, "unit")
    /\ phase' = "done"
    /\ UNCHANGED <<store, cursor, returned, detector_vars, div_vars>>

\* The common course of iter and reverse_iter: the scan is built, then
\* rewound, and the iterator is returned; an error at either ends the call.
OpenIterator(direction, range, scan_ok, rewind_ok) ==
    /\ engine_calls' =
           IF scan_ok
           THEN <<EngineCall("range_scan", TRUE),
                  EngineCall("rewind", rewind_ok)>>
           ELSE <<EngineCall("range_scan", FALSE)>>
    /\ ret' = Try(scan_ok /\ rewind_ok, "iterator")
    /\ phase' = IF ret'.ok THEN "open" ELSE "done"
    /\ cursor' = IF ret'.ok THEN Some(Rewind(RangeScan(direction, range)))
                 ELSE None
    /\ UNCHANGED <<store, forwarded, returned, detector_vars, div_vars>>

\* iter, lines 55-64
Iter(prefix, scan_ok, rewind_ok) ==
    /\ phase = "idle"
    /\ call' = [op |-> "iter", prefix |-> prefix]
    /\ OpenIterator("Forward", IterRange(prefix), scan_ok, rewind_ok)

\* reverse_iter, lines 66-71
ReverseIter(prefix, scan_ok, rewind_ok) ==
    /\ phase = "idle"
    /\ call' = [op |-> "reverse_iter", prefix |-> prefix]
    /\ OpenIterator("Backward", ReverseIterRange(prefix), scan_ok, rewind_ok)

\* Mutant: the cursor is stepped before the pair is copied.
IterNext_StepFirst(advance_ok) ==
    /\ phase = "open"
    /\ NoneReturned < MaxNextAfterEnd
    /\ call' = [op |-> "next"]
    /\ IF IsValid(Held)
       THEN /\ engine_calls' = <<EngineCall("next", advance_ok)>>
            /\ ret' = IF advance_ok /\ IsValid(Advance(Held))
                      THEN Ok(Some(Current(Advance(Held))))
                      ELSE Try(advance_ok, None)
            /\ cursor' = IF advance_ok THEN Some(Advance(Held))
                         ELSE Some(AdvanceFailed(Held))
            /\ returned' = IF ret'.ok THEN Append(returned, ret'.value)
                           ELSE returned
            /\ phase' = IF ret'.ok THEN "open" ELSE "failed"
       ELSE /\ engine_calls' = <<>>
            /\ ret' = Ok(None)
            /\ returned' = Append(returned, None)
            /\ UNCHANGED <<cursor, phase>>
    /\ UNCHANGED <<store, forwarded, detector_vars, div_vars>>

\* HummockStateStoreIter::next, lines 81-94
IterNext(advance_ok) ==
    /\ phase = "open"
    /\ NoneReturned < MaxNextAfterEnd
    /\ call' = [op |-> "next"]
    /\ IF IsValid(Held)
       THEN /\ engine_calls' = <<EngineCall("next", advance_ok)>>
            /\ ret' = Try(advance_ok, Some(Current(Held)))
            /\ cursor' = IF advance_ok THEN Some(Advance(Held))
                         ELSE Some(AdvanceFailed(Held))
            /\ returned' = IF ret'.ok THEN Append(returned, ret'.value)
                           ELSE returned
            /\ phase' = IF ret'.ok THEN "open" ELSE "failed"
       ELSE /\ engine_calls' = <<>>
            /\ ret' = Ok(None)
            /\ returned' = Append(returned, None)
            /\ UNCHANGED <<cursor, phase>>
    /\ UNCHANGED <<store, forwarded, detector_vars, div_vars>>

FacadeInit ==
    /\ DetectorInit
    /\ FacadeIdle
    /\ store \in SUBSET StoreKeys
    /\ DivIdle

\* A facade call is made on a facade that has made none; next() is called
\* on the iterator in hand.
FacadeNext ==
    \/ /\ phase = "idle"
       /\ \E key \in ByteKeys, get_ok \in BOOLEAN : Get(key, get_ok)
    \/ /\ phase = "idle"
       /\ \E kv_pairs \in KvPairs, epoch \in Epochs, write_ok \in BOOLEAN :
              IngestBatch(kv_pairs, epoch, write_ok)
    \/ /\ phase = "idle"
       /\ \E prefix \in Prefixes, scan_ok \in BOOLEAN, rewind_ok \in BOOLEAN :
              Iter(prefix, scan_ok, rewind_ok)
    \/ /\ phase = "idle"
       /\ \E prefix \in Prefixes, scan_ok \in BOOLEAN, rewind_ok \in BOOLEAN :
              ReverseIter(prefix, scan_ok, rewind_ok)
    \/ /\ phase = "open"
       /\ \E advance_ok \in BOOLEAN : IterNext(advance_ok)

FacadeSpec == FacadeInit /\ [][FacadeNext]_vars

-----------------------------------------------------------------------------
(* The checked integer division of two columns                               *)
(* (src/rust/server/src/vector_op/div_op.rs).  The result type T3 is a       *)
(* signed two's complement integer of IntBits bits; a row is None (null) or  *)
(* Some(value).                                                              *)

IntBits == 3
MaxRows == 2

IntMIN == -(2 ^ (IntBits - 1))
IntMAX == 2 ^ (IntBits - 1) - 1

\* The element values the columns are drawn from: the ends of the result
\* type, the values around zero, and pairs whose quotient is not whole.
NativeValues == {IntMIN, IntMIN + 1, -1, 0, 1, 2, IntMAX}

Rows == {None} \cup {Some(x) : x \in NativeValues}

Columns(len) == [1..len -> Rows]

Abs(x) == IF x < 0 THEN -x ELSE x

\* `x as T3`: the low IntBits bits of x, read as a signed integer.
as_(x) == ((x - IntMIN) % (2 ^ IntBits)) + IntMIN

\* The quotient of the machine division: rounded towards zero.
Quotient(a, b) ==
    IF (a < 0) = (b < 0)
    THEN Abs(a) \div Abs(b)
    ELSE -(Abs(a) \div Abs(b))

\* checked_div that lets the one overflowing quotient wrap around.
checked_div_Wrapping(a, b) ==
    IF b = 0 THEN None ELSE Some(as_(Quotient(a, b)))

\* T3::checked_div: None when the divisor is zero or the quotient does not
\* fit the type, which happens for IntMIN / -1 only.
checked_div(a, b) ==
    IF b = 0 \/ (a = IntMIN /\ b = -1)
    THEN None
    ELSE Some(Quotient(a, b))

NumericValueOutOfRange == [ok |-> FALSE, value |-> "NumericValueOutOfRange"]

\* PrimitiveArrayBuilder: new, append and finish.  The builder collects the
\* items in the order they are appended.
BuilderNew == <<>>

BuilderAppend(builder, item) == Append(builder, item)

BuilderFinish(builder) == Ok(builder)

\* The loop over the zipped rows from row i on: the first row whose division
\* is undefined ends the call with the error.
RECURSIVE DivRows(_, _, _, _)
DivRows(a, b, i, builder) ==
    IF i > Len(a) \/ i > Len(b)
    THEN BuilderFinish(builder)
    ELSE IF a[i] # None /\ b[i] # None
         THEN LET c == checked_div(as_(a[i][1]), as_(b[i][1]))
              IN  IF c = None
                  THEN NumericValueOutOfRange
                  ELSE DivRows(a, b, i + 1, BuilderAppend(builder, c))
         ELSE DivRows(a, b, i + 1, BuilderAppend(builder, None))

vector_div_primitive_integer(a, b) == DivRows(a, b, 1, BuilderNew)

\* DivSpec: one call on two columns of the same length.
DivInit ==
    /\ DetectorInit
    /\ FacadeIdle
    /\ store = {}
    /\ \E len \in 0..MaxRows :
          /\ div_a \in Columns(len)
          /\ div_b \in Columns(len)
    /\ div_result = None

VectorDivPrimitiveInteger ==
    /\ div_result = None
    /\ div_result' = Some(vector_div_primitive_integer(div_a, div_b))
    /\ UNCHANGED <<div_a, div_b, detector_vars, facade_vars>>

DivNext == VectorDivPrimitiveInteger

DivSpec == DivInit /\ [][DivNext]_vars

-----------------------------------------------------------------------------
(* Properties of Spec.  `last` is the call that ran last, last.pre the       *)
(* detector it started from.                                                *)

HasDuplicate(kv_pairs) ==
    \E i, j \in 1..Len(kv_pairs) : i < j /\ kv_pairs[i] = kv_pairs[j]

KeysOf(kv_pairs) == {kv_pairs[i] : i \in 1..Len(kv_pairs)}

\* The keys tracked for `epoch` in history h (none without an entry).
Tracked(h, epoch) == IF epoch \in DOMAIN h THEN h[epoch] ELSE {}

\* C1: a write batch is fatal whenever one of its keys is already tracked
\* for its epoch (by an earlier batch) or occurs twice in the batch.
C1_DuplicateWriteIsFatal ==
    (/\ last.op = "write"
     /\ \/ HasDuplicate(last.kv_pairs)
        \/ KeysOf(last.kv_pairs)
               \cap Tracked(last.pre.epoch_history, last.epoch) # {})
        => Fatal(last.result)

\* C1 witness: a batch without inner duplicates is refused for a key that an
\* earlier batch of the same epoch had written.
C1_Witness ==
    /\ last.op = "write"
    /\ last.result = "duplicate_key"
    /\ ~HasDuplicate(last.kv_pairs)
    /\ KeysOf(last.kv_pairs)
           \cap Tracked(last.pre.epoch_history, last.epoch) # {}

\* C2: a write to an epoch at or below the watermark is fatal, whatever the
\* batch and whatever happened to that epoch before.
C2_WriteAtOrBelowWatermarkIsFatal ==
    (last.op = "write" /\ last.epoch <= last.pre.epoch_watermark)
        => Fatal(last.result)

\* C2 witness: an empty batch is refused on an epoch below a raised
\* watermark that was never written and never archived.
C2_Witness ==
    /\ last.op = "write"
    /\ last.kv_pairs = <<>>
    /\ last.epoch < last.pre.epoch_watermark
    /\ last.epoch \notin DOMAIN last.pre.epoch_history
    /\ last.epoch \notin last.pre.epoch_set \cup last.pre_done
    /\ Fatal(last.result)

\* C3: once archive_epoch has returned for an epoch, every later write to
\* that epoch is fatal.
C3_WriteToArchivedEpochIsFatal ==
    (last.op = "write" /\ last.epoch \in last.pre_done) => Fatal(last.result)

\* C3 witness: the write is refused after the epoch has been pruned out of
\* epoch_set.
C3_Witness ==
    /\ last.op = "write"
    /\ last.epoch \in last.pre_done
    /\ last.epoch \notin last.pre.epoch_set
    /\ last.kv_pairs # <<>>
    /\ Fatal(last.result)

\* C4: a write to an open epoch with pairwise distinct keys, none of them
\* tracked for that epoch, returns, and the epoch's tracked set is then what
\* it was plus the keys of the batch.
C4_ValidWriteSucceeds ==
    (/\ last.op = "write"
     /\ last.epoch > last.pre.epoch_watermark
     /\ last.epoch \notin last.pre.epoch_set
     /\ ~HasDuplicate(last.kv_pairs)
     /\ KeysOf(last.kv_pairs)
            \cap Tracked(last.pre.epoch_history, last.epoch) = {})
        => /\ last.result = "ok"
           /\ last.epoch \in DOMAIN epoch_history
           /\ epoch_history[last.epoch] =
                  Tracked(last.pre.epoch_history, last.epoch)
                      \cup KeysOf(last.kv_pairs)

\* C4 witness: the write returns although its key is tracked under another
\* epoch, and it adds to keys already tracked for its own epoch.
C4_Witness ==
    /\ last.op = "write"
    /\ last.result = "ok"
    /\ Tracked(last.pre.epoch_history, last.epoch) # {}
    /\ \E e \in DOMAIN last.pre.epoch_history :
           /\ e # last.epoch
           /\ KeysOf(last.kv_pairs) \cap last.pre.epoch_history[e] # {}

\* C5: archive_epoch(E, Some(E)) on an open epoch E leaves the watermark at
\* E - 1, and afterwards every write to E or to a lower epoch is fatal.
C5_ArchiveFirstOfGeneration ==
    /\ (/\ last.op = "archive"
        /\ last.first_epoch = Some(last.epoch)
        /\ last.epoch > last.pre.epoch_watermark
        /\ last.epoch \notin last.pre.epoch_set)
           => /\ last.result = "ok"
              /\ epoch_watermark = last.epoch - 1
    /\ (last.op = "write" /\ last.epoch <= last.pre_floor)
           => Fatal(last.result)

\* C5 witness: after archive_epoch(E, Some(E)) a write to a lower epoch
\* above the minimum, never archived itself, is refused.
C5_Witness ==
    /\ last.op = "write"
    /\ last.epoch < last.pre_floor
    /\ last.epoch > EpochMIN
    /\ last.epoch \notin last.pre_done
    /\ Fatal(last.result)

\* C6: an epoch for which archive_epoch has returned has no tracked key set,
\* and none is created for it later.
C6_ArchivedEpochHasNoEntry ==
    \A e \in archived_done : e \notin DOMAIN epoch_history

\* C6 witness: archive_epoch returned for an epoch that had keys tracked.
C6_Witness ==
    /\ last.op = "archive"
    /\ last.result = "ok"
    /\ Tracked(last.pre.epoch_history, last.epoch) # {}

\* C8: every epoch with an entry in epoch_history is above the watermark and
\* not in epoch_set.
C8_EntriesOnlyForOpenEpochs ==
    \A e \in DOMAIN epoch_history : e > epoch_watermark /\ e \notin epoch_set

\* C9: archive_epoch is fatal for an epoch whose archival has returned
\* before (still in epoch_set or pruned), and for any epoch at or below the
\* watermark.
C9_RepeatedOrLateArchiveIsFatal ==
    (/\ last.op = "archive"
     /\ \/ last.epoch \in last.pre_done
        \/ last.epoch <= last.pre.epoch_watermark)
        => Fatal(last.result)

\* C9 witness: the second archival of an epoch is refused after the epoch
\* has been pruned out of epoch_set.
C9_Witness ==
    /\ last.op = "archive"
    /\ last.epoch \in last.pre_done
    /\ last.epoch \notin last.pre.epoch_set
    /\ Fatal(last.result)

-----------------------------------------------------------------------------
(* Properties of ConcSpec *)

\* The current calls of t and u ran at the same time.
Overlapped(t, u) == u \in frame[t].with /\ t \in frame[u].with

\* C7: no step lowers the watermark, whatever the interleaving and also in
\* calls that end in a panic.
C7_WatermarkNeverDecreases == [][epoch_watermark' >= epoch_watermark]_vars

\* C7 witness: two tasks raced to set the watermark; the one that asked for
\* the lower value panicked and the watermark stands at the higher one.
C7_Witness ==
    \E t, u \in Tasks :
        /\ Overlapped(t, u)
        /\ frame[t].pc = "done" /\ frame[t].result = "ok"
        /\ frame[u].pc = "done" /\ frame[u].result = "watermark_regression"
        /\ frame[u].target > EpochMIN
        /\ frame[u].target < frame[t].target
        /\ epoch_watermark = frame[t].target

\* C10: of two writes to the same epoch that share a key, made by two tasks
\* while the epoch has not been archived, at most one returns.
C10_AtMostOneWriterWins ==
    \A t, u \in Tasks :
        (/\ t # u
         /\ frame[t].pc = "done" /\ frame[t].op = "write"
         /\ frame[u].pc = "done" /\ frame[u].op = "write"
         /\ frame[t].epoch = frame[u].epoch
         /\ frame[t].epoch \notin marked
         /\ KeysOf(frame[t].kv_pairs) \cap KeysOf(frame[u].kv_pairs) # {})
            => ~(frame[t].result = "ok" /\ frame[u].result = "ok")

\* C10 witness: two writers of one key ran at the same time; one returned
\* and the other panicked on the key.
C10_Witness ==
    \E t, u \in Tasks :
        /\ Overlapped(t, u)
        /\ frame[t].pc = "done" /\ frame[t].op = "write"
        /\ frame[u].pc = "done" /\ frame[u].op = "write"
        /\ frame[t].epoch = frame[u].epoch
        /\ frame[t].result = "ok"
        /\ frame[u].result = "duplicate_key"
        /\ ~HasDuplicate(frame[u].kv_pairs)
        /\ KeysOf(frame[t].kv_pairs) \cap KeysOf(frame[u].kv_pairs) # {}

\* C11: a write and an archive_epoch of the same epoch run at the same time:
\* no key is inserted into the epoch's tracked set once the epoch has been
\* marked archived, and when both calls have ended the epoch has no entry.
C11_NoWriterTouchesArchivedEpoch ==
    [][/\ \A t \in Tasks :
              (/\ frame[t].pc = "w_track"
               /\ frame'[t].pc = "done"
               /\ frame[t].kv_pairs # <<>>)
                  => frame[t].epoch \notin marked
       /\ \A t, u \in Tasks :
              (/\ Overlapped(t, u)'
               /\ frame'[t].pc = "done" /\ frame'[t].op = "write"
               /\ frame'[u].pc = "done" /\ frame'[u].op = "archive"
               /\ frame'[u].result = "ok"
               /\ frame'[t].epoch = frame'[u].epoch)
                  => frame'[t].epoch \notin DOMAIN epoch_history']_vars

\* C12: two archive_epoch calls on distinct open epochs run at the same time,
\* each with a first epoch whose predecessor is above the watermark at the
\* start of the race, and no other call moves the watermark meanwhile: when
\* both have ended the watermark is the larger of the two predecessors.
RaceStart(t, u) ==
    IF frame[t].entry_watermark <= frame[u].entry_watermark
    THEN frame[t].entry_watermark ELSE frame[u].entry_watermark

\* The watermark each of the two calls found at its entry is the one of the
\* start or one the other call asked for.
OnlyRacersMoved(t, u) ==
    \A v \in {t, u} :
        frame[v].entry_watermark
            \in {RaceStart(t, u), frame[t].target, frame[u].target}

RacedArchives(t, u) ==
    /\ t # u
    /\ Overlapped(t, u)
    /\ \A v \in {t, u} :
           /\ frame[v].pc = "done"
           /\ frame[v].op = "archive"
           /\ frame[v].result \notin {"below_watermark", "already_archived"}
           /\ frame[v].target > RaceStart(t, u)
    /\ frame[t].epoch # frame[u].epoch
    /\ OnlyRacersMoved(t, u)

C12_RacingArchivesConverge ==
    \A t, u \in Tasks :
        RacedArchives(t, u)
            => epoch_watermark = Max(frame[t].target, frame[u].target)

C12_Witness ==
    \E t, u \in Tasks :
        /\ RacedArchives(t, u)
        /\ frame[t].target < frame[u].target
        /\ frame[t].result = "ok" /\ frame[u].result = "ok"
        /\ epoch_watermark = frame[u].target

\* C17: after an archive_epoch(E, first_epoch) that returned, the watermark is
\* first_epoch - 1 (in the arithmetic of the epoch type) when a first epoch
\* was given, whether it is E, below E or above E, and is the watermark of
\* before when none was given; when first_epoch - 1 is the watermark of
\* before, the watermark stays and the archived epochs of before stay, with E
\* added.
C17_ArchiveSetsWatermarkToFirstMinusOne ==
    (last.op = "archive" /\ last.result = "ok")
        => /\ last.first_epoch = None
                  => epoch_watermark = last.pre.epoch_watermark
           /\ \A f \in Epochs :
                  last.first_epoch = Some(f)
                      => /\ epoch_watermark = (f - 1) % (MaxEpoch + 1)
                         /\ (f - 1) % (MaxEpoch + 1) = last.pre.epoch_watermark
                                => /\ epoch_watermark = last.pre.epoch_watermark
                                   /\ epoch_set = last.pre.epoch_set
                                                      \cup {last.epoch}

\* C17 witness: an archive_epoch with a first epoch above its epoch returned
\* and moved the watermark while an earlier archived epoch was held.
C17_Witness ==
    /\ last.op = "archive"
    /\ last.result = "ok"
    /\ \E f \in Epochs : last.first_epoch = Some(f) /\ f > last.epoch
    /\ epoch_watermark > last.pre.epoch_watermark
    /\ last.pre.epoch_set # {}

\* C18: set_watermark(e) with e at or below the watermark is fatal and leaves
\* the watermark as it was; with e above the watermark it returns and the
\* watermark is e.
C18_WatermarkRegressionIsFatal ==
    last.op = "set_watermark"
        => IF last.epoch <= last.pre.epoch_watermark
           THEN /\ Fatal(last.result)
                /\ epoch_watermark = last.pre.epoch_watermark
           ELSE /\ last.result = "ok"
                /\ epoch_watermark = last.epoch

\* C18 witness: set_watermark was asked for the very watermark, after the
\* watermark had moved, and was refused.
C18_Witness ==
    /\ last.op = "set_watermark"
    /\ last.epoch = last.pre.epoch_watermark
    /\ last.epoch > EpochMIN
    /\ last.result = "watermark_regression"

\* C20: in every reachable state, the states of interleaved archive_epoch
\* calls included, every epoch in epoch_set is above the watermark.
C20_ArchivedEpochsAboveWatermark ==
    \A e \in epoch_set : e > epoch_watermark

\* C19: under a scheduler that lets every task inside a call take its next
\* step, every run of the loop of set_watermark, called directly or by
\* archive_epoch, comes to its end: the exchange succeeded or the assertion
\* failed; and a task goes back to the read only after an exchange that found
\* the watermark different from the value the task had read.
InLoop(t) == frame[t].pc \in {"sw_load", "sw_cas"}

LoopEnded(t) ==
    \/ frame[t].pc = "a_retain"
    \/ frame[t].pc = "done" /\ frame[t].result \in {"ok",
                                                    "watermark_regression"}

C19_SetWatermarkLoopTerminates ==
    /\ \A t \in Tasks : InLoop(t) ~> LoopEnded(t)
    /\ [][\A t \in Tasks :
              (frame[t].pc = "sw_cas" /\ frame'[t].pc = "sw_load")
                  => epoch_watermark # frame[t].current_watermark]_vars

\* C19 witness: a set_watermark call whose exchange failed is back at the
\* read, and its epoch is still above the watermark, so it will try again.
C19_Witness ==
    \E t \in Tasks :
        /\ frame[t].op = "set_watermark"
        /\ frame[t].pc = "sw_load"
        /\ frame[t].target > epoch_watermark

\* The byte string k begins with prefix.
HasPrefix(k, prefix) ==
    /\ Len(prefix) <= Len(k)
    /\ \A j \in 1..Len(prefix) : k[j] = prefix[j]

\* How many positions of a sequence hold the value x.
Count(seq, x) == Cardinality({i \in DOMAIN seq : seq[i] = x})

\* C13: the pairs ingest_batch hands to write_batch are the pairs of its
\* input, each as many times as in the input, in ascending byte-wise order
\* of their keys, an absent value as a Delete and a present value as a Put
\* of the same bytes, under the epoch of the call.
C13_IngestBatchForwardsSortedBatch ==
    call.op = "ingest_batch"
        => /\ forwarded # None
           /\ forwarded[1].epoch = call.epoch
           /\ Len(forwarded[1].pairs) = Len(call.kv_pairs)
           /\ \A k \in BatchKeys :
                  /\ Count(call.kv_pairs, <<k, None>>)
                         = Count(forwarded[1].pairs,
                                 <<k, [kind |-> "Delete", bytes |-> <<>>]>>)
                  /\ \A bytes \in {v[1] : v \in OptValues \ {None}} :
                         Count(call.kv_pairs, <<k, Some(bytes)>>)
                             = Count(forwarded[1].pairs,
                                     <<k, [kind |-> "Put", bytes |-> bytes]>>)
           /\ \A i \in 1..(Len(forwarded[1].pairs) - 1) :
                  LexLeq(forwarded[1].pairs[i][1], forwarded[1].pairs[i + 1][1])

\* C13 witness: a batch whose first key is above its second and whose first
\* value is absent went through ingest_batch.
C13_Witness ==
    /\ call.op = "ingest_batch"
    /\ ret.ok
    /\ Len(call.kv_pairs) = 2
    /\ LexLess(call.kv_pairs[2][1], call.kv_pairs[1][1])
    /\ call.kv_pairs[1][2] = None
    /\ forwarded[1].pairs[2][2].kind = "Delete"

\* C14: while no call on the held iterator has failed, the results of its
\* next() calls are the pairs of the rewound cursor, in the cursor's order,
\* each once, and after them the empty result every time; the cursor has
\* been rewound once, by the call that made it, and stepped once for each
\* pair returned.
C14_IteratorIsOneShot ==
    phase = "open"
        => /\ \A i \in DOMAIN returned :
                  returned[i] = IF i <= Len(Held.items)
                                THEN Some(Held.items[i]) ELSE None
           /\ Held.rewinds = 1
           /\ Held.steps = Len(returned) - NoneReturned
           /\ Held.steps <= Len(Held.items)

\* C14 witness: an iterator over two or more pairs has returned them all and
\* has then been asked again, more than once.
C14_Witness ==
    /\ phase = "open"
    /\ Len(Held.items) >= 2
    /\ Len(returned) = Len(Held.items) + 2
    /\ returned[Len(returned)] = None

\* C15: iter(P) returns a forward cursor, rewound once and not stepped, over
\* a range that starts at P and holds exactly the keys that begin with P,
\* also when P ends in or is made of the largest byte; the pairs of the
\* cursor are those of the engine's keys that begin with P.
C15_IterScansExactlyThePrefix ==
    (call.op = "iter" /\ ret.ok)
        => /\ Held.direction = "Forward"
           /\ Held.rewinds = 1 /\ Held.steps = 0
           /\ Held.range.start = [unbounded |-> FALSE, key |-> call.prefix]
           /\ \A k \in ByteKeys :
                  HasPrefix(k, call.prefix)
                      <=> /\ LexLeq(call.prefix, k)
                          /\ \/ Held.range.end.unbounded
                             \/ LexLess(k, Held.range.end.key)
           /\ {Held.items[i][1] : i \in DOMAIN Held.items}
                  = {k \in store : HasPrefix(k, call.prefix)}

\* C15 witness: iter was called with a prefix that ends in the largest byte
\* and does not begin with it, on an engine that holds a key with the prefix
\* and a key above the range.
C15_Witness ==
    /\ call.op = "iter"
    /\ ret.ok
    /\ Len(call.prefix) = 2
    /\ call.prefix[1] # ByteMAX
    /\ call.prefix[2] = ByteMAX
    /\ Held.items # <<>>
    /\ \E k \in store : LexLess(call.prefix, k) /\ ~HasPrefix(k, call.prefix)

\* C16: when an engine call made by get, ingest_batch, iter, reverse_iter or
\* the iterator's next fails, the facade call returns the failure, not a
\* value, and the failed engine call is the last one it made: it is not made
\* a second time.
C16_EngineErrorsAreReturned ==
    call.op # "none"
        => \A i \in DOMAIN engine_calls :
               ~engine_calls[i].ok
                   => /\ ~ret.ok
                      /\ i = Len(engine_calls)
                      /\ \A j \in DOMAIN engine_calls :
                             j # i => engine_calls[j].fn # engine_calls[i].fn

\* C16 witness: an iterator that had returned a pair failed to step its
\* cursor, and next() returned the failure.
C16_Witness ==
    /\ call.op = "next"
    /\ phase = "failed"
    /\ Len(returned) >= 1
    /\ engine_calls = <<[fn |-> "next", ok |-> FALSE]>>
    /\ ~ret.ok

\* C21: a check_conflict_and_track_write_batch call on an epoch at or below
\* the watermark, or on an archived epoch, is fatal and leaves the watermark,
\* the archived epochs and the epoch history as they were: no entry, not
\* even an empty one, is made for the epoch.
C21_RejectedWriteChangesNothing ==
    (/\ last.op = "write"
     /\ \/ last.epoch <= last.pre.epoch_watermark
        \/ last.epoch \in last.pre.epoch_set)
        => /\ Fatal(last.result)
           /\ epoch_watermark = last.pre.epoch_watermark
           /\ epoch_set = last.pre.epoch_set
           /\ epoch_history = last.pre.epoch_history
           /\ last.epoch \notin DOMAIN last.pre.epoch_history
                  => last.epoch \notin DOMAIN epoch_history

\* C21 witness: a batch with keys was written to an archived epoch above the
\* watermark that had no entry, while another epoch had one.
C21_Witness ==
    /\ last.op = "write"
    /\ last.kv_pairs # <<>>
    /\ last.epoch \in last.pre.epoch_set
    /\ last.epoch > last.pre.epoch_watermark
    /\ last.epoch \notin DOMAIN last.pre.epoch_history
    /\ DOMAIN last.pre.epoch_history # {}
    /\ last.result = "archived_epoch"

\* The keys of a batch at the positions before i.
KeysBefore(kv_pairs, i) == {kv_pairs[j] : j \in 1..(i - 1)}

\* The positions of a batch whose key is tracked already or stands at an
\* earlier position too.
DuplicateAt(kv_pairs, tracked) ==
    {i \in 1..Len(kv_pairs) :
        kv_pairs[i] \in tracked \cup KeysBefore(kv_pairs, i)}

FirstDuplicate(kv_pairs, tracked) ==
    CHOOSE i \in DuplicateAt(kv_pairs, tracked) :
        \A j \in DuplicateAt(kv_pairs, tracked) : i <= j

\* The keys a write that ended at a duplicate key has left tracked.
LeftTracked(c) ==
    Tracked(c.pre.epoch_history, c.epoch)
        \cup KeysBefore(c.kv_pairs,
                        FirstDuplicate(c.kv_pairs,
                                       Tracked(c.pre.epoch_history, c.epoch)))

\* C22: when check_conflict_and_track_write_batch(kv_pairs, E) is fatal at
\* the duplicate key of position i, E has an entry, also when it had none,
\* that holds the keys tracked before and the keys of the positions before
\* i, and no key of a later position that was not there; a next batch on E,
\* still open, with one of the keys so left is fatal too.
C22_TrackingIsNotAllOrNothing ==
    /\ [](last.op = "write" /\ last.result = "duplicate_key"
              => /\ last.epoch \in DOMAIN epoch_history
                 /\ epoch_history[last.epoch] = LeftTracked(last))
    /\ [][(/\ last.op = "write" /\ last.result = "duplicate_key"
           /\ last'.op = "write" /\ last'.epoch = last.epoch
           /\ KeysOf(last'.kv_pairs) \cap LeftTracked(last) # {})
              => last'.result = "duplicate_key"]_vars

\* C22 witness: a batch on an epoch without entry ended at its second key, a
\* duplicate of its first, and the epoch has an entry with that key.
C22_Witness ==
    /\ last.op = "write"
    /\ last.result = "duplicate_key"
    /\ last.epoch \notin DOMAIN last.pre.epoch_history
    /\ FirstDuplicate(last.kv_pairs, {}) = 2
    /\ epoch_history[last.epoch] = {last.kv_pairs[1]}

\* C23: archive_epoch(E, Some(F)) with E open, F at least 1 and F - 1 below
\* the watermark ends in the watermark regression signal after E has been
\* archived: E is in the archived set and has no entry, the watermark is the
\* one of before, and the archived set has lost no epoch.
C23_LateRegressionLeavesEpochArchived ==
    (/\ last.op = "archive"
     /\ last.epoch > last.pre.epoch_watermark
     /\ last.epoch \notin last.pre.epoch_set
     /\ \E F \in Epochs :
            /\ last.first_epoch = Some(F)
            /\ 1 <= F
            /\ F - 1 < last.pre.epoch_watermark)
        => /\ last.result = "watermark_regression"
           /\ epoch_set = last.pre.epoch_set \cup {last.epoch}
           /\ last.epoch \notin DOMAIN epoch_history
           /\ \A e \in DOMAIN last.pre.epoch_history \ {last.epoch} :
                  /\ e \in DOMAIN epoch_history
                  /\ epoch_history[e] = last.pre.epoch_history[e]
           /\ epoch_watermark = last.pre.epoch_watermark

\* C23 witness: an open epoch with tracked keys was archived with a first
\* epoch whose predecessor is below the watermark.
C23_Witness ==
    /\ last.op = "archive"
    /\ last.result = "watermark_regression"
    /\ Tracked(last.pre.epoch_history, last.epoch) # {}
    /\ last.first_epoch # None
    /\ last.first_epoch[1] >= 1
    /\ last.first_epoch[1] - 1 < last.pre.epoch_watermark
    /\ last.epoch \in epoch_set

-----------------------------------------------------------------------------
(* Properties of DivSpec *)

\* The rows at which both elements are present and the division has no
\* value in the result type.
UndefinedRows(a, b) ==
    {i \in 1..Len(a) :
        /\ a[i] # None
        /\ b[i] # None
        /\ \/ b[i][1] = 0
           \/ a[i][1] = IntMIN /\ b[i][1] = -1}

\* q is x / y rounded towards zero: the remainder is smaller than the
\* divisor and is zero or has the sign of the dividend.
IsTruncatedQuotient(q, x, y) ==
    LET r == x - q * y
    IN  /\ Abs(r) < Abs(y)
        /\ r = 0 \/ (r < 0) = (x < 0)

\* The call returned the out-of-range error.
IsOutOfRange(r) == ~r.ok /\ r.value = "NumericValueOutOfRange"

\* C24: vector_div_primitive_integer on two columns of the same length
\* returns the out-of-range error exactly when at some row both elements are
\* present and the division is undefined (divisor zero, or the minimum value
\* divided by -1); otherwise it returns a column of the same length whose
\* row is null where either element is null and the quotient rounded
\* towards zero elsewhere.
C24_CheckedDivisionOfColumns ==
    div_result # None =>
        LET r == div_result[1]
        IN  IF UndefinedRows(div_a, div_b) # {}
            THEN IsOutOfRange(r)
            ELSE /\ r.ok
                 /\ Len(r.value) = Len(div_a)
                 /\ \A i \in 1..Len(div_a) :
                       IF div_a[i] = None \/ div_b[i] = None
                       THEN r.value[i] = None
                       ELSE /\ r.value[i] # None
                            /\ r.value[i][1] \in IntMIN..IntMAX
                            /\ IsTruncatedQuotient(r.value[i][1],
                                                   div_a[i][1], div_b[i][1])

\* A call that ended with the error because of IntMIN / -1 in its last row,
\* after a row with a null.
C24_WitnessOverflow ==
    /\ Len(div_a) = MaxRows
    /\ div_a[1] = None
    /\ div_a[MaxRows] = Some(IntMIN)
    /\ div_b[MaxRows] = Some(-1)
    /\ \A i \in 1..(MaxRows - 1) : i \notin UndefinedRows(div_a, div_b)
    /\ div_result # None
    /\ IsOutOfRange(div_result[1])

====
